---- MODULE Spec2Model ----
(***************************************************************************)
(* Adaptive feedback-aware Dijkstra (src/adaptive_dijkstra.py):            *)
(* AdaptiveDijkstra.find_optimal_path, _calculate_adaptive_cost,           *)
(* record_route_feedback, _load_history/_save_history, _reconstruct_path.  *)
(*                                                                         *)
(* Python floats are modelled in fixed point: the float x is the integer   *)
(* floor(x * SCALE); a product or quotient is rounded down to the grid.    *)
(* Python ints (usage_count, total_failures, node ids, times) are plain    *)
(* integers.                                                               *)
(***************************************************************************)
EXTENDS Integers, Sequences, FiniteSets, TLC

\* ------------------------------------------------------------------ bounds
\* Number of record_route_feedback calls in one behaviour of Spec.
MaxFeedback == 3
\* Number of edges of a generated graph (SpecSearch).
MaxEdges == 3
\* Number of record_route_feedback calls in one behaviour of SpecThreads.
MaxThreadFeedback == 1
\* Number of record_route_feedback calls, of both engines together, in one
\* behaviour of SpecEngines.
MaxEngineFeedback == 2

\* --------------------------------------------------------------- constants
SCALE == 1000
HISTORICAL_WEIGHT == 300
DECAY_FACTOR == 950
MIN_SAMPLES == 3
\* float('inf'): larger than every finite cost of the model
Inf == 1000000000
\* Python's None in the parents table (node ids are >= 0)
None == -1

\* ---------------------------------------------------------- float helpers
FMul(a, b) == (a * b) \div SCALE
\* float / int
FDivInt(a, n) == a \div n
\* int / int as a float
IntDiv(a, n) == (a * SCALE) \div n
FMax(a, b) == IF a >= b THEN a ELSE b
FMin(a, b) == IF a <= b THEN a ELSE b

\* DECAY_FACTOR ** (1 / (new_count + 1)), tabulated on the fixed-point grid:
\* entry n is floor(SCALE * 0.95 ^ (1 / (n + 1))).
DecayTable ==
  <<974, 983, 987, 989, 991, 992, 993, 994, 994, 995,
    995, 996, 996, 996, 996, 996, 997, 997, 997, 997>>
DecayPow(new_count) ==
  IF new_count <= Len(DecayTable) THEN DecayTable[new_count] ELSE 998

\* ------------------------------------------------------------- edge keys
\* f"{from_node}-{to_node}" for the node ids of the model
NodeStr == <<"0", "1", "2", "3", "4", "5", "6", "7", "8", "9">>
EdgeKey(from_node, to_node) ==
  NodeStr[from_node + 1] \o "-" \o NodeStr[to_node + 1]

\* ---------------------------------------------------------------- graphs
\* RoadGraph: nodes (the keys of graph.nodes) and get_neighbors(node), a
\* sequence of (neighbor, base_distance, metadata).
Edge(n, d, m) == [neighbor |-> n, base_dist |-> d, metadata |-> m]
\* metadata.get(key, default)
MetaGet(metadata, key, default) ==
  IF key \in DOMAIN metadata THEN metadata[key] ELSE default

GoodRoad == [traffic_factor |-> 1000, quality |-> 1000]
FairRoad == [traffic_factor |-> 1500, quality |-> 800]
PoorRoad == [quality |-> 500]
FreeRoad == [traffic_factor |-> 0, quality |-> 900]

GraphNodes == {0, 1, 2}
\* a node id that is no key of graph.nodes
QueryNodes == GraphNodes \cup {3}

NoEdges == [n \in GraphNodes |-> <<>>]
\* 0 -> 1 -> 2, base_distance 10, traffic_factor 1.0, quality 1.0
LineGraph ==
  [nodes |-> GraphNodes,
   adj |-> [NoEdges EXCEPT ![0] = <<Edge(1, 10000, GoodRoad)>>,
                           ![1] = <<Edge(2, 10000, GoodRoad)>>]]
\* the line plus a direct road 0 -> 2 slightly dearer than the line, and
\* roads back
TriGraph ==
  [nodes |-> GraphNodes,
   adj |-> [NoEdges EXCEPT ![0] = <<Edge(2, 20500, GoodRoad),
                                    Edge(1, 10000, GoodRoad)>>,
                           ![1] = <<Edge(2, 10000, GoodRoad),
                                    Edge(0, 7000, FairRoad)>>,
                           ![2] = <<Edge(0, 0, GoodRoad)>>]]
\* 2 is not reachable from 0; 1 is reached by two roads
SplitGraph ==
  [nodes |-> GraphNodes,
   adj |-> [NoEdges EXCEPT ![0] = <<Edge(1, 9000, PoorRoad),
                                    Edge(1, 10000, GoodRoad)>>,
                           ![1] = <<Edge(0, 10000, GoodRoad)>>,
                           ![2] = <<Edge(1, 5000, FreeRoad)>>]]
SpecGraphs == {LineGraph, TriGraph}

\* ------------------------------------------------- _calculate_adaptive_cost
vehicle_penalty(road_quality, vehicle_type) ==
  IF road_quality >= 850 THEN 1000
  ELSE IF road_quality >= 750
       THEN (IF vehicle_type = "boda" THEN 1100 ELSE 1300)
       ELSE (IF vehicle_type = "boda" THEN 1300 ELSE 1800)

\* lines 201-214: the static cost
StaticCost(base_distance, metadata, vehicle_type) ==
  FMul(FMul(base_distance, MetaGet(metadata, "traffic_factor", 1000)),
       vehicle_penalty(MetaGet(metadata, "quality", 1000), vehicle_type))

\* mutant: a reward for quiet history, the penalty centred on a delay of 1.0
HistoricalBonus(usage_count, avg_delay, failure_rate) ==
  LET confidence == FMin(IntDiv(usage_count, 10), SCALE)
  IN  SCALE + FMul(FMul(HISTORICAL_WEIGHT, confidence),
                   avg_delay - SCALE + FMul(failure_rate, 2 * SCALE))

\* lines 235-238
historical_penalty(usage_count, avg_delay, failure_rate) ==
  LET confidence == FMin(IntDiv(usage_count, 10), SCALE)
  IN  SCALE + FMul(FMul(HISTORICAL_WEIGHT, confidence),
                   avg_delay + FMul(failure_rate, 2 * SCALE))

\* ------------------------------------------------------ find_optimal_path
\* graph.get_neighbors(node); for a node that is no key of the graph the
\* collaborator either returns no edge or raises (see SearchStep, "pop")
get_neighbors(graph, node) ==
  IF node \in graph.nodes THEN graph.adj[node] ELSE <<>>

\* self.stats as __init__ leaves it (lines 77-82)
InitStats ==
  [nodes_explored |-> 0, edges_examined |-> 0, path_length |-> 0,
   history_influenced |-> 0]

\* The engine's stats and the locals of find_optimal_path. pc is the place
\* the call has reached; "idle" before the first call, "done" once returned.
\* cost_calls logs every call of _calculate_adaptive_cost: its arguments,
\* the values it read from the record and the value it returned.
IdleSearch ==
  [pc |-> "idle", start |-> None, end |-> None, unk |-> "empty",
   costs |-> <<>>, parents |-> <<>>, pq |-> {}, visited |-> {},
   current_node |-> None, nbrs |-> <<>>, idx |-> 0,
   base_cost |-> 0, edge_cost |-> 0, uc |-> 0, avg |-> 0, fr |-> 0,
   cost_calls |-> <<>>, stats |-> InitStats,
   path |-> <<>>, total_cost |-> 0, kind |-> "none"]

\* lines 100-117
StartSearch(graph, start, end, unk) ==
  [IdleSearch EXCEPT
     !.pc = "pop", !.start = start, !.end = end, !.unk = unk,
     !.costs = [n \in graph.nodes \cup {start} |->
                  IF n = start THEN 0 ELSE Inf],
     !.parents = [n \in graph.nodes |-> None],
     !.pq = {<<0, start>>},
     !.stats = [nodes_explored |-> 0, edges_examined |-> 0,
                path_length |-> 0, history_influenced |-> 0,
                explored_edges |-> <<>>]]

\* heapq orders the (cost, node_id) tuples lexicographically
TupleLE(e, f) == e[1] < f[1] \/ (e[1] = f[1] /\ e[2] <= f[2])
\* mutant: the frontier ordered by node id alone
HeapMinByNode(pq) == CHOOSE e \in pq : \A f \in pq : e[2] <= f[2]
HeapMin(pq) == CHOOSE e \in pq : \A f \in pq : TupleLE(e, f)

\* mutant: the nodes are appended as they are met, from end back to start
RECURSIVE FollowParentsBackward(_, _, _)
FollowParentsBackward(parents, current, acc) ==
  IF current = None THEN acc
  ELSE FollowParentsBackward(parents, parents[current], acc \o <<current>>)

RECURSIVE FollowParents(_, _, _)
FollowParents(parents, current, acc) ==
  IF current = None THEN acc
  ELSE FollowParents(parents, parents[current], <<current>> \o acc)

\* mutant: the no-parent test of line 321 left out
ReconstructUnguarded(parents, start, end) ==
  FollowParents(parents, end, <<>>)

\* lines 319-330 (end is a key of parents)
_reconstruct_path(parents, start, end) ==
  IF parents[end] = None /\ end # start THEN <<>>
  ELSE FollowParents(parents, end, <<>>)

\* an entry of cost_calls: the edge (the idx-th neighbour of from_node), the
\* static cost, the returned cost, whether history was applied, and the
\* record fields as read: usage_count at the gate (uc), average_delay,
\* failure_rate, usage_count for the confidence (uc2)
CostCall(s, influenced, r, uc2) ==
  [from_node |-> s.current_node, to_node |-> s.nbrs[s.idx].neighbor,
   idx |-> s.idx, static |-> s.base_cost, cost |-> r,
   influenced |-> influenced,
   uc |-> s.uc, avg |-> s.avg, fr |-> s.fr, uc2 |-> uc2]

\* mutant: an extracted entry is settled without the visited test
PopStepNoDiscard(s, graph) ==
  IF s.pq = {} THEN [s EXCEPT !.pc = "reconstruct"]
  ELSE
    LET e == HeapMin(s.pq)
        node == e[2]
        s1 == [s EXCEPT !.pq = s.pq \ {e}, !.visited = @ \cup {node},
                        !.current_node = node,
                        !.stats.nodes_explored = @ + 1]
    IN  IF node = s.end THEN [s1 EXCEPT !.pc = "reconstruct"]
        ELSE IF node \notin graph.nodes /\ s.unk = "raise"
             THEN [s1 EXCEPT !.pc = "done", !.kind = "KeyError"]
             ELSE [s1 EXCEPT !.pc = "edge", !.idx = 1,
                             !.nbrs = get_neighbors(graph, node)]

\* lines 123-134: one iteration of the while loop up to the neighbour loop
PopStep(s, graph) ==
  IF s.pq = {} THEN [s EXCEPT !.pc = "reconstruct"]
  ELSE
    LET e == HeapMin(s.pq)
        node == e[2]
        rest == s.pq \ {e}
    IN  IF node \in s.visited THEN [s EXCEPT !.pq = rest]
        ELSE
          LET s1 == [s EXCEPT !.pq = rest, !.visited = @ \cup {node},
                              !.current_node = node,
                              !.stats.nodes_explored = @ + 1]
          IN  IF node = s.end THEN [s1 EXCEPT !.pc = "reconstruct"]
              ELSE IF node \notin graph.nodes /\ s.unk = "raise"
                   THEN [s1 EXCEPT !.pc = "done", !.kind = "KeyError"]
                   ELSE [s1 EXCEPT !.pc = "edge", !.idx = 1,
                                   !.nbrs = get_neighbors(graph, node)]

\* lines 137-142 and 201-217: next neighbour, static part of its cost
EdgeStep(s, vehicle_type) ==
  IF s.idx > Len(s.nbrs) THEN [s EXCEPT !.pc = "pop"]
  ELSE
    LET e == s.nbrs[s.idx]
        s1 == [s EXCEPT !.stats.edges_examined = @ + 1,
                        !.stats.explored_edges =
                           Append(@, <<s.current_node, e.neighbor>>)]
    IN  IF e.neighbor \in s.visited THEN [s1 EXCEPT !.idx = @ + 1]
        ELSE [s1 EXCEPT !.pc = "history", !.uc = 0, !.avg = 0, !.fr = 0,
                        !.base_cost =
                           StaticCost(e.base_dist, e.metadata, vehicle_type)]

\* mutant: a record is applied whatever its usage_count
HistoryAppliesUngated(edge_history, edge_key) ==
  edge_key \in DOMAIN edge_history

\* mutant: the gate is usage_count > MIN_SAMPLES
HistoryAppliesStrict(edge_history, edge_key) ==
  /\ edge_key \in DOMAIN edge_history
  /\ edge_history[edge_key].usage_count > MIN_SAMPLES

\* the gate of lines 219-223
HistoryApplies(edge_history, edge_key) ==
  /\ edge_key \in DOMAIN edge_history
  /\ edge_history[edge_key].usage_count >= MIN_SAMPLES

\* lines 219-224: look the record up, read usage_count
HistoryStep(s, edge_history) ==
  LET edge_key == EdgeKey(s.current_node, s.nbrs[s.idx].neighbor)
  IN  IF HistoryApplies(edge_history, edge_key)
      THEN [s EXCEPT !.pc = "avg_delay",
                     !.uc = edge_history[edge_key].usage_count,
                     !.stats.history_influenced = @ + 1]
      ELSE [s EXCEPT !.pc = "relax", !.edge_cost = s.base_cost,
                     !.cost_calls = Append(@, CostCall(s, FALSE, s.base_cost, 0))]

\* line 227
AvgDelayStep(s, edge_history) ==
  LET edge_key == EdgeKey(s.current_node, s.nbrs[s.idx].neighbor)
  IN  [s EXCEPT !.pc = "failure_rate",
                !.avg = edge_history[edge_key].average_delay]

\* line 228
FailureRateStep(s, edge_history) ==
  LET edge_key == EdgeKey(s.current_node, s.nbrs[s.idx].neighbor)
  IN  [s EXCEPT !.pc = "penalty",
                !.fr = edge_history[edge_key].failure_rate]

\* lines 235-242: usage_count is read again for the confidence
PenaltyStep(s, edge_history) ==
  LET edge_key == EdgeKey(s.current_node, s.nbrs[s.idx].neighbor)
      uc2 == edge_history[edge_key].usage_count
      r == FMul(s.base_cost, historical_penalty(uc2, s.avg, s.fr))
  IN  [s EXCEPT !.pc = "relax", !.edge_cost = r,
                !.cost_calls = Append(@, CostCall(s, TRUE, r, uc2))]

\* lines 149-154
RelaxStep(s) ==
  LET neighbor == s.nbrs[s.idx].neighbor
      new_cost == s.costs[s.current_node] + s.edge_cost
  IN  IF new_cost < s.costs[neighbor]
      THEN [s EXCEPT !.pc = "edge", !.idx = @ + 1,
                     !.costs[neighbor] = new_cost,
                     !.parents[neighbor] = s.current_node,
                     !.pq = @ \cup {<<new_cost, neighbor>>}]
      ELSE [s EXCEPT !.pc = "edge", !.idx = @ + 1]

\* lines 156-170; parents[end] raises KeyError when end is no graph node
ReconstructStep(s) ==
  IF s.end \notin DOMAIN s.parents
  THEN [s EXCEPT !.pc = "done", !.kind = "KeyError"]
  ELSE
    LET path == _reconstruct_path(s.parents, s.start, s.end)
    IN  IF path # <<>>
        THEN [s EXCEPT !.pc = "done", !.kind = "ok", !.path = path,
                       !.total_cost = s.costs[s.end],
                       !.stats.path_length = Len(path)]
        ELSE [s EXCEPT !.pc = "done", !.kind = "ok", !.path = path,
                       !.total_cost = Inf]

SearchStep(s, graph, vehicle_type, edge_history) ==
  CASE s.pc = "pop" -> PopStep(s, graph)
    [] s.pc = "edge" -> EdgeStep(s, vehicle_type)
    [] s.pc = "history" -> HistoryStep(s, edge_history)
    [] s.pc = "avg_delay" -> AvgDelayStep(s, edge_history)
    [] s.pc = "failure_rate" -> FailureRateStep(s, edge_history)
    [] s.pc = "penalty" -> PenaltyStep(s, edge_history)
    [] s.pc = "relax" -> RelaxStep(s)
    [] s.pc = "reconstruct" -> ReconstructStep(s)
    [] OTHER -> s

\* the whole call, run to its return against one store
RECURSIVE RunSearch(_, _, _, _)
RunSearch(s, graph, vehicle_type, edge_history) ==
  IF s.pc \in {"idle", "done"} THEN s
  ELSE RunSearch(SearchStep(s, graph, vehicle_type, edge_history),
                 graph, vehicle_type, edge_history)

\* ---------------------------------------------------- the persisted store
\* json.dump(self.edge_history, f): the JSON text, an object of objects, as
\* the set of its (key, members) pairs, members a set of (name, number) pairs
\* mutant: only the fields the summary reports are written
JsonDumpSummaryFields(edge_history) ==
  {<<k, {<<field, edge_history[k][field]>> :
           field \in {"usage_count", "average_delay", "failure_rate"}}>> :
     k \in DOMAIN edge_history}

JsonDump(edge_history) ==
  {<<k, {<<field, edge_history[k][field]>> : field \in DOMAIN edge_history[k]}>> :
     k \in DOMAIN edge_history}

\* json.load(f) of such a text
JsonMember(members, field) ==
  (CHOOSE m \in members : m[1] = field)[2]
JsonObject(members) ==
  [field \in {m[1] : m \in members} |-> JsonMember(members, field)]
JsonLoad(text) ==
  [k \in {p[1] : p \in text} |->
     JsonObject((CHOOSE p \in text : p[1] = k)[2])]

\* data/edge_history.json: absent, a complete JSON text, or the remains of
\* a write that failed after open(..., 'w') truncated the file
AbsentFile == [exists |-> FALSE, complete |-> FALSE, text |-> {}]
TruncatedFile == [exists |-> TRUE, complete |-> FALSE, text |-> {}]
WrittenFile(text) == [exists |-> TRUE, complete |-> TRUE, text |-> text]

\* lines 306-311 (the file exists and holds a JSON text, or is absent)
_load_history(file) ==
  IF file.exists THEN JsonLoad(file.text) ELSE <<>>

\* lines 313-317. outcome is what the storage does: "ok", "unwritable"
\* (makedirs or open raises, the file is untouched) or "write_error" (dump
\* raises after open truncated the file). Returns the file and how the
\* call ended.
_save_history(edge_history, file, outcome) ==
  CASE outcome = "ok" ->
         [file |-> WrittenFile(JsonDump(edge_history)), kind |-> "ok"]
    [] outcome = "unwritable" -> [file |-> file, kind |-> "OSError"]
    [] OTHER -> [file |-> TruncatedFile, kind |-> "OSError"]

\* -------------------------------------------------- record_route_feedback
\* lines 274-280
NewRecord ==
  [usage_count |-> 0, average_delay |-> 0, failure_rate |-> 0,
   total_delay |-> 0, total_failures |-> 0]

\* the arguments and locals of record_route_feedback; i is the loop index
\* (from 1), storage the outcome _save_history will meet
IdleFeedback ==
  [pc |-> "idle", path |-> <<>>, actual_time |-> 0, expected_time |-> 0,
   success |-> TRUE, storage |-> "ok", delay |-> 0, i |-> 0,
   new_count |-> 0, kind |-> "none"]

StartFeedback(path, actual_time, expected_time, success, storage) ==
  [IdleFeedback EXCEPT
     !.pc = "delay", !.path = path, !.actual_time = actual_time,
     !.expected_time = expected_time, !.success = success,
     !.storage = storage]

\* mutant: the relative delay without the clamp at 0
DelayFactorSigned(actual_time, expected_time) ==
  IF expected_time > 0
  THEN IntDiv(actual_time - expected_time, expected_time)
  ELSE 0

\* lines 262-264
DelayFactor(actual_time, expected_time) ==
  FMax(0, IF expected_time > 0
          THEN IntDiv(actual_time - expected_time, expected_time)
          ELSE 0)

\* A step of record_route_feedback on m = [f |-> locals, store |->
\* self.edge_history, file |-> the history file].
\* mutant: one key for both directions of travel (smaller node id first)
FbKeyUndirected(f) ==
  EdgeKey(FMin(f.path[f.i], f.path[f.i + 1]),
          FMax(f.path[f.i], f.path[f.i + 1]))

FbKey(f) == EdgeKey(f.path[f.i], f.path[f.i + 1])

DelayStep(m) ==
  [m EXCEPT !.f.pc = "loop", !.f.i = 1,
            !.f.delay = DelayFactor(m.f.actual_time, m.f.expected_time)]

\* mutant: the record is initialised at every visit of the edge
LoopStepFresh(m) ==
  IF m.f.i > Len(m.f.path) - 1 THEN [m EXCEPT !.f.pc = "save"]
  ELSE
    LET edge_key == FbKey(m.f)
    IN  [m EXCEPT !.f.pc = "total_delay",
                  !.store = [k \in DOMAIN m.store \cup {edge_key} |->
                               IF k = edge_key THEN NewRecord
                               ELSE m.store[k]]]

\* lines 267-280: next edge of the path, its record created when missing
LoopStep(m) ==
  IF m.f.i > Len(m.f.path) - 1 THEN [m EXCEPT !.f.pc = "save"]
  ELSE
    LET edge_key == FbKey(m.f)
    IN  [m EXCEPT !.f.pc = "total_delay",
                  !.store = IF edge_key \in DOMAIN m.store THEN m.store
                            ELSE [k \in DOMAIN m.store \cup {edge_key} |->
                                    IF k = edge_key THEN NewRecord
                                    ELSE m.store[k]]]

\* lines 282-291
TotalDelayStep(m) ==
  LET edge_key == FbKey(m.f)
      old_count == m.store[edge_key].usage_count
      new_count == old_count + 1
      decay == DecayPow(new_count)
  IN  [m EXCEPT !.f.pc = "average_delay", !.f.new_count = new_count,
                !.store[edge_key].total_delay = FMul(@, decay) + m.f.delay]

\* mutant: the average taken over the old count
AverageDelayOldCount(m) ==
  LET edge_key == FbKey(m.f)
  IN  [m EXCEPT !.f.pc = "total_failures",
                !.store[edge_key].average_delay =
                   FDivInt(m.store[edge_key].total_delay,
                           FMax(1, m.f.new_count - 1))]

\* line 292
AverageDelayStep(m) ==
  LET edge_key == FbKey(m.f)
  IN  [m EXCEPT !.f.pc = "total_failures",
                !.store[edge_key].average_delay =
                   FDivInt(m.store[edge_key].total_delay, m.f.new_count)]

\* mutant: the failure is counted only after the rate was derived, so the
\* count of this call is left out
TotalFailuresSkipped(m) ==
  [m EXCEPT !.f.pc = "failure_rate"]

\* lines 294-295
TotalFailuresStep(m) ==
  LET edge_key == FbKey(m.f)
  IN  [m EXCEPT !.f.pc = "failure_rate",
                !.store[edge_key].total_failures =
                   IF m.f.success THEN @ ELSE @ + 1]

\* line 296
FailureRateUpdate(m) ==
  LET edge_key == FbKey(m.f)
  IN  [m EXCEPT !.f.pc = "usage_count",
                !.store[edge_key].failure_rate =
                   IntDiv(m.store[edge_key].total_failures, m.f.new_count)]

\* line 298
UsageCountStep(m) ==
  LET edge_key == FbKey(m.f)
  IN  [m EXCEPT !.f.pc = "loop", !.f.i = @ + 1,
                !.store[edge_key].usage_count = m.f.new_count]

\* mutant: a failed save puts the store back to what the file holds
SaveStepRollback(m) ==
  LET saved == _save_history(m.store, m.file, m.f.storage)
  IN  [m EXCEPT !.f.pc = "done", !.f.kind = saved.kind,
                !.file = saved.file,
                !.store = IF saved.kind = "ok" THEN m.store
                          ELSE IF m.file.exists /\ m.file.complete
                               THEN _load_history(m.file) ELSE <<>>]

\* lines 300-304: an exception of _save_history leaves the call
SaveStep(m) ==
  LET saved == _save_history(m.store, m.file, m.f.storage)
  IN  [m EXCEPT !.f.pc = "done", !.f.kind = saved.kind,
                !.file = saved.file]

FeedbackStep(m) ==
  CASE m.f.pc = "delay" -> DelayStep(m)
    [] m.f.pc = "loop" -> LoopStep(m)
    [] m.f.pc = "total_delay" -> TotalDelayStep(m)
    [] m.f.pc = "average_delay" -> AverageDelayStep(m)
    [] m.f.pc = "total_failures" -> TotalFailuresStep(m)
    [] m.f.pc = "failure_rate" -> FailureRateUpdate(m)
    [] m.f.pc = "usage_count" -> UsageCountStep(m)
    [] m.f.pc = "save" -> SaveStep(m)
    [] OTHER -> m

\* the whole call, run to its return (or to the exception leaving it)
RECURSIVE RunFeedback(_)
RunFeedback(m) ==
  IF m.f.pc \in {"idle", "done"} THEN m ELSE RunFeedback(FeedbackStep(m))

\* ------------------------------------------------------------------ state
VARIABLES
  graph,          \* self.graph
  vehicle_type,   \* self.vehicle_type
  edge_history,   \* self.edge_history: edge key -> record
  file,           \* the history file
  srch,           \* self.stats and the find_optimal_path call (IdleSearch)
  fb,             \* the record_route_feedback call (IdleFeedback)
  budget,         \* record_route_feedback calls still allowed by the bound
  line_feedbacks, \* history: the calls so far are this many
                  \* record_route_feedback([0,1,2], 30, 20, True) and no
                  \* other feedback; -1 once another feedback was given
  versions,       \* history (SpecThreads): the stores at the call
                  \* boundaries of record_route_feedback so far
  peer            \* a second engine on the same history file: its
                  \* self.edge_history and its record_route_feedback
                  \* call; None where there is no second engine

vars ==
  <<graph, vehicle_type, edge_history, file, srch, fb, budget,
    line_feedbacks, versions, peer>>

\* ----------------------------------------------------------------- inputs
FeedbackPaths == {<<0, 1, 2>>, <<0, 1, 0, 1>>, <<2>>}
\* (actual_time, expected_time, success): late and delivered, early and
\* failed, failed with no expectation
FeedbackReports == {<<30, 20, TRUE>>, <<10, 20, FALSE>>, <<20, 0, FALSE>>}
StorageOutcomes == {"ok", "unwritable", "write_error"}
VehicleTypes == {"boda", "bajaji"}
\* (start, end) of the searches of Spec
SearchPairs == {<<0, 2>>, <<2, 0>>}
\* what get_neighbors does for a node that is no key of the graph
UnknownOutcomes(g, start) ==
  IF start \in g.nodes THEN {"empty"} ELSE {"empty", "raise"}

\* ------------------------------------------------------------------- Init
\* __init__ (lines 63-82) with the default vehicle_type and no history file
Init ==
  /\ graph \in SpecGraphs
  /\ vehicle_type = "boda"
  /\ file = AbsentFile
  /\ edge_history = _load_history(file)
  /\ srch = IdleSearch
  /\ fb = IdleFeedback
  /\ budget = MaxFeedback
  /\ line_feedbacks = 0
  /\ versions = {}
  /\ peer = None

\* ---------------------------------------------------------------- actions
\* mutant: the lookup of an edge's record creates the record when it is
\* missing, as a defaultdict would
find_optimal_path_creating(start, end, unk) ==
  /\ srch.pc \in {"idle", "done"}
  /\ fb.pc \in {"idle", "done"}
  /\ srch' = RunSearch(StartSearch(graph, start, end, unk),
                       graph, vehicle_type, edge_history)
  /\ fb' = IdleFeedback
  /\ edge_history' =
       LET looked == {EdgeKey(srch'.cost_calls[i].from_node,
                              srch'.cost_calls[i].to_node) :
                        i \in 1..Len(srch'.cost_calls)}
       IN  [k \in DOMAIN edge_history \cup looked |->
              IF k \in DOMAIN edge_history THEN edge_history[k]
              ELSE NewRecord]
  /\ UNCHANGED <<graph, vehicle_type, file, budget, line_feedbacks,
                 versions, peer>>

\* find_optimal_path(start, end), lines 84-170. The previous call's return
\* value is gone when the next call begins; self.stats stays.
find_optimal_path(start, end, unk) ==
  /\ srch.pc \in {"idle", "done"}
  /\ fb.pc \in {"idle", "done"}
  /\ srch' = RunSearch(StartSearch(graph, start, end, unk),
                       graph, vehicle_type, edge_history)
  /\ fb' = IdleFeedback
  /\ UNCHANGED <<graph, vehicle_type, edge_history, file, budget,
                 line_feedbacks, versions, peer>>

IsLineFeedback(path, report) ==
  path = <<0, 1, 2>> /\ report = <<30, 20, TRUE>>

\* record_route_feedback(path, actual_time, expected_time, success),
\* lines 244-304
record_route_feedback(path, report, storage) ==
  /\ srch.pc \in {"idle", "done"}
  /\ fb.pc \in {"idle", "done"}
  /\ budget > 0
  /\ LET m == RunFeedback(
                [f |-> StartFeedback(path, report[1], report[2], report[3],
                                     storage),
                 store |-> edge_history, file |-> file])
     IN  /\ edge_history' = m.store
         /\ file' = m.file
         /\ fb' = m.f
  /\ srch' = [IdleSearch EXCEPT !.stats = srch.stats]
  /\ budget' = budget - 1
  /\ line_feedbacks' =
       IF line_feedbacks >= 0 /\ IsLineFeedback(path, report)
       THEN line_feedbacks + 1 ELSE None
  /\ UNCHANGED <<graph, vehicle_type, versions, peer>>

Next ==
  \/ \E pair \in SearchPairs :
       \E unk \in UnknownOutcomes(graph, pair[1]) :
         find_optimal_path(pair[1], pair[2], unk)
  \/ \E path \in FeedbackPaths, report \in FeedbackReports,
        storage \in StorageOutcomes :
       record_route_feedback(path, report, storage)

Spec == Init /\ [][Next]_vars

\* ------------------------------------------------- searches over a history
\* Generated graphs: every ordered pair of distinct nodes carries no road,
\* a good road or a fair road; at most MaxEdges roads.
NodePairs == {p \in GraphNodes \X GraphNodes : p[1] # p[2]}
RoadKinds == {"none", "good", "fair"}
RoadEdge(v, kind) ==
  IF kind = "good" THEN Edge(v, 10000, GoodRoad) ELSE Edge(v, 7000, FairRoad)

RECURSIVE EdgesFrom(_, _, _)
EdgesFrom(roads, n, targets) ==
  IF targets = {} THEN <<>>
  ELSE LET v == CHOOSE x \in targets : \A y \in targets : x <= y
       IN  (IF v # n /\ roads[<<n, v>>] # "none"
            THEN <<RoadEdge(v, roads[<<n, v>>])>> ELSE <<>>)
           \o EdgesFrom(roads, n, targets \ {v})

GraphOf(roads) ==
  [nodes |-> GraphNodes,
   adj |-> [n \in GraphNodes |-> EdgesFrom(roads, n, GraphNodes)]]

GeneratedGraphs ==
  {GraphOf(roads) :
     roads \in {r \in [NodePairs -> RoadKinds] :
                  Cardinality({p \in NodePairs : r[p] # "none"}) <= MaxEdges}}

\* the store after n calls record_route_feedback([0,1,2], 30, 20, True)
RECURSIVE LineStore(_)
LineStore(n) ==
  IF n = 0 THEN <<>>
  ELSE RunFeedback([f |-> StartFeedback(<<0, 1, 2>>, 30, 20, TRUE, "ok"),
                    store |-> LineStore(n - 1), file |-> AbsentFile]).store

\* History files an engine may be constructed on: none; the one three line
\* feedbacks leave; one whose records have too few samples and bad
\* figures; one with many samples.
EstablishedFile == WrittenFile(JsonDump(LineStore(MIN_SAMPLES)))
YoungFile ==
  WrittenFile(JsonDump(
    [k \in {"0-1", "1-2", "2-0"} |->
       [usage_count |-> 2, average_delay |-> 5000, failure_rate |-> 1000,
        total_delay |-> 10000, total_failures |-> 2]]))
MatureFile ==
  WrittenFile(JsonDump(
    [k \in {"0-1", "1-2"} |->
       [usage_count |-> 12, average_delay |-> 2000, failure_rate |-> 500,
        total_delay |-> 24000, total_failures |-> 6]]))
LoadableFiles == {AbsentFile, EstablishedFile, YoungFile, MatureFile}

SearchGraphs == GeneratedGraphs \cup {TriGraph, SplitGraph}

InitSearch ==
  /\ graph \in SearchGraphs
  /\ vehicle_type \in VehicleTypes
  /\ file \in LoadableFiles
  /\ edge_history = _load_history(file)
  /\ srch = IdleSearch
  /\ fb = IdleFeedback
  /\ budget = 0
  /\ line_feedbacks = 0
  /\ versions = {}
  /\ peer = None

NextSearch ==
  \E start \in QueryNodes, end \in QueryNodes :
    \E unk \in UnknownOutcomes(graph, start) :
      find_optimal_path(start, end, unk)

SpecSearch == InitSearch /\ [][NextSearch]_vars

\* ------------------------------------------- two threads on one engine
\* The class takes no lock. SpecThreads runs a find_optimal_path call and
\* a record_route_feedback call of two threads of the host on one engine,
\* a step of either at a time, on an engine constructed on the file three
\* line feedbacks left.
ThreadPaths == {<<0, 1, 2>>, <<2>>}
ThreadStorage == {"ok", "unwritable"}

InitThreads ==
  /\ graph = LineGraph
  /\ vehicle_type = "boda"
  /\ file = EstablishedFile
  /\ edge_history = _load_history(file)
  /\ srch = IdleSearch
  /\ fb = IdleFeedback
  /\ budget = MaxThreadFeedback
  /\ line_feedbacks = None
  /\ versions = {edge_history}
  /\ peer = None

\* lines 100-117
BeginSearch(start, end) ==
  /\ srch.pc \in {"idle", "done"}
  /\ srch' = StartSearch(graph, start, end, "empty")
  /\ UNCHANGED <<graph, vehicle_type, edge_history, file, fb, budget,
                 line_feedbacks, versions, peer>>

\* the next step of the search, against the store as it is now
AdvanceSearch ==
  /\ srch.pc \notin {"idle", "done"}
  /\ srch' = SearchStep(srch, graph, vehicle_type, edge_history)
  /\ UNCHANGED <<graph, vehicle_type, edge_history, file, fb, budget,
                 line_feedbacks, versions, peer>>

BeginFeedback(path, report, storage) ==
  /\ fb.pc \in {"idle", "done"}
  /\ budget > 0
  /\ fb' = StartFeedback(path, report[1], report[2], report[3], storage)
  /\ budget' = budget - 1
  /\ UNCHANGED <<graph, vehicle_type, edge_history, file, srch,
                 line_feedbacks, versions, peer>>

\* the next step of the feedback, writing the store in place
AdvanceFeedback ==
  /\ fb.pc \notin {"idle", "done"}
  /\ LET m == FeedbackStep([f |-> fb, store |-> edge_history, file |-> file])
     IN  /\ edge_history' = m.store
         /\ file' = m.file
         /\ fb' = m.f
         /\ versions' = IF m.f.pc = "done" THEN versions \cup {m.store}
                        ELSE versions
  /\ UNCHANGED <<graph, vehicle_type, srch, budget, line_feedbacks, peer>>

NextThreads ==
  \/ BeginSearch(0, 2)
  \/ AdvanceSearch
  \/ \E path \in ThreadPaths, report \in FeedbackReports,
        storage \in ThreadStorage :
       BeginFeedback(path, report, storage)
  \/ AdvanceFeedback

SpecThreads == InitThreads /\ [][NextThreads]_vars

\* ------------------------------------------------- a search step by step
\* find_optimal_path one step of its loop at a time, on an engine
\* constructed on an absent or an established history file. The call runs
\* on the caller's thread until it returns, so its next step is always
\* taken: weak fairness of AdvanceSearch.
StepGraphs == {LineGraph, TriGraph, SplitGraph}
StepFiles == {AbsentFile, EstablishedFile}

InitSteps ==
  /\ graph \in StepGraphs
  /\ vehicle_type \in VehicleTypes
  /\ file \in StepFiles
  /\ edge_history = _load_history(file)
  /\ srch = IdleSearch
  /\ fb = IdleFeedback
  /\ budget = 0
  /\ line_feedbacks = 0
  /\ versions = {}
  /\ peer = None

NextSteps ==
  \/ \E start \in QueryNodes, end \in QueryNodes : BeginSearch(start, end)
  \/ AdvanceSearch

SpecSteps == InitSteps /\ [][NextSteps]_vars /\ WF_vars(AdvanceSearch)

\* ------------------------------------------- two engines on one file
\* Two AdaptiveDijkstra instances constructed on the same HISTORY_FILE (a
\* class constant, line 56): each loads the file once, in __init__, and
\* from then on writes its own self.edge_history over it. The calls of the
\* two engines follow one another, none overlaps another.
EnginePaths == {<<0, 1, 2>>, <<0, 1, 0, 1>>}

InitEngines ==
  /\ graph = LineGraph
  /\ vehicle_type = "boda"
  /\ file \in StepFiles
  /\ edge_history = _load_history(file)
  /\ peer = [edge_history |-> _load_history(file), fb |-> IdleFeedback]
  /\ srch = IdleSearch
  /\ fb = IdleFeedback
  /\ budget = MaxEngineFeedback
  /\ line_feedbacks = None
  /\ versions = {edge_history}

\* record_route_feedback of the second engine, lines 244-304
PeerFeedback(path, report, storage) ==
  /\ fb.pc \in {"idle", "done"}
  /\ peer.fb.pc \in {"idle", "done"}
  /\ budget > 0
  /\ LET m == RunFeedback(
                [f |-> StartFeedback(path, report[1], report[2], report[3],
                                     storage),
                 store |-> peer.edge_history, file |-> file])
     IN  /\ peer' = [edge_history |-> m.store, fb |-> m.f]
         /\ file' = m.file
  /\ budget' = budget - 1
  /\ UNCHANGED <<graph, vehicle_type, edge_history, srch, fb,
                 line_feedbacks, versions>>

NextEngines ==
  \/ \E path \in EnginePaths, report \in FeedbackReports,
        storage \in ThreadStorage :
       record_route_feedback(path, report, storage)
  \/ \E path \in EnginePaths, report \in FeedbackReports,
        storage \in ThreadStorage :
       PeerFeedback(path, report, storage)

SpecEngines == InitEngines /\ [][NextEngines]_vars

\* ----------------------------------------------------------------- claims
\* _calculate_adaptive_cost as one function of its arguments and the store
\* (lines 172-242)
_calculate_adaptive_cost(from_node, to_node, base_distance, metadata, vehicle, history) ==
  LET base_cost == StaticCost(base_distance, metadata, vehicle)
      edge_key == EdgeKey(from_node, to_node)
  IN  IF HistoryApplies(history, edge_key)
      THEN FMul(base_cost,
                historical_penalty(history[edge_key].usage_count,
                                   history[edge_key].average_delay,
                                   history[edge_key].failure_rate))
      ELSE base_cost

\* the adaptive cost of the i-th edge out of u
EdgeCostAt(u, i) ==
  LET e == graph.adj[u][i]
  IN  _calculate_adaptive_cost(u, e.neighbor, e.base_dist, e.metadata,
                               vehicle_type, edge_history)

SetMin(S) == CHOOSE x \in S : \A y \in S : x <= y

\* Cheapest walks by rounds of relaxation over all edges: after k rounds
\* d[v] is the least summed adaptive cost of a walk of at most k edges
RECURSIVE WalkCosts(_, _)
WalkCosts(d, k) ==
  IF k = 0 THEN d
  ELSE WalkCosts(
         [v \in graph.nodes |->
            SetMin({d[v]} \cup
                   {d[u] + EdgeCostAt(u, i) :
                      <<u, i>> \in {ui \in graph.nodes \X (1..Cardinality(NodePairs)) :
                                     /\ ui[2] <= Len(graph.adj[ui[1]])
                                     /\ graph.adj[ui[1]][ui[2]].neighbor = v
                                     /\ d[ui[1]] < Inf}})],
         k - 1)

MinPathCost(start, end) ==
  WalkCosts([v \in graph.nodes |-> IF v = start THEN 0 ELSE Inf],
            Cardinality(graph.nodes))[end]

\* the nodes some path from the nodes of S reaches
RECURSIVE ReachFrom(_)
ReachFrom(S) ==
  LET T == S \cup {graph.adj[u][i].neighbor :
                     <<u, i>> \in {ui \in S \X (1..Cardinality(NodePairs)) :
                                    ui[2] <= Len(graph.adj[ui[1]])}}
  IN  IF T = S THEN S ELSE ReachFrom(T)

Reachable(start, end) == end \in ReachFrom({start})

NonNegativeCosts ==
  \A u \in graph.nodes : \A i \in 1..Len(graph.adj[u]) : EdgeCostAt(u, i) >= 0

Returned == srch.pc = "done"
KnownQuery == srch.start \in graph.nodes /\ srch.end \in graph.nodes

\* C1: on a graph whose adaptive edge costs are non-negative, for graph
\* nodes start and end with end reachable from start, find_optimal_path
\* returns normally with total_cost the minimum over all start-to-end paths
\* of the summed adaptive edge cost against the store of the call.
C1_MinimumCost ==
  (Returned /\ KnownQuery /\ NonNegativeCosts
     /\ Reachable(srch.start, srch.end))
  => /\ srch.kind = "ok"
     /\ srch.total_cost = MinPathCost(srch.start, srch.end)

\* a search whose cheapest route was changed by history: two edges long,
\* through edges whose cost history raised
C1_Witness ==
  /\ Returned /\ KnownQuery /\ srch.kind = "ok"
  /\ Reachable(srch.start, srch.end)
  /\ Len(srch.path) = 3
  /\ srch.stats.history_influenced > 0
  /\ srch.total_cost = MinPathCost(srch.start, srch.end)
  /\ \E c \in 1..Len(srch.cost_calls) :
       srch.cost_calls[c].cost > srch.cost_calls[c].static

\* C2: when end is a graph node that no path from start reaches (start #
\* end), find_optimal_path returns normally (no KeyError of the parent
\* walk) with an empty path and total_cost = +infinity.
C2_NoPath ==
  (Returned /\ KnownQuery /\ srch.start # srch.end
     /\ ~Reachable(srch.start, srch.end))
  => /\ srch.kind = "ok"
     /\ srch.path = <<>>
     /\ srch.total_cost = Inf

\* an unreachable goal after a search that settled more than the start
C2_Witness ==
  /\ Returned /\ KnownQuery /\ srch.start # srch.end
  /\ ~Reachable(srch.start, srch.end)
  /\ Cardinality(srch.visited) >= 2
  /\ srch.path = <<>>

\* the record a logged cost call was made against
CallKey(c) == EdgeKey(c.from_node, c.to_node)
CallEdge(c) == graph.adj[c.from_node][c.idx]
CostCalls == {srch.cost_calls[i] : i \in 1..Len(srch.cost_calls)}
\* the store holds at least MIN_SAMPLES observations of the edge
EnoughSamples(store, key) ==
  key \in DOMAIN store /\ ~(store[key].usage_count < MIN_SAMPLES)
LowConfidence(c) == ~EnoughSamples(edge_history, CallKey(c))

\* C6: for an edge with no record, or a record with usage_count below
\* MIN_SAMPLES, _calculate_adaptive_cost returns exactly base_distance *
\* traffic_factor * vehicle_penalty whatever the record says, and leaves
\* history_influenced alone (the counter counts the other calls only).
C6_HistoryGate ==
  Returned =>
    /\ \A c \in CostCalls :
         LowConfidence(c) =>
           /\ ~c.influenced
           /\ c.cost = StaticCost(CallEdge(c).base_dist, CallEdge(c).metadata,
                                  vehicle_type)
    /\ srch.stats.history_influenced =
         Cardinality({i \in 1..Len(srch.cost_calls) :
                        ~LowConfidence(srch.cost_calls[i])})

\* a cost call on an edge whose record has two samples, a bad delay and
\* only failures
C6_Witness ==
  /\ Returned
  /\ \E c \in CostCalls :
       /\ CallKey(c) \in DOMAIN edge_history
       /\ edge_history[CallKey(c)].usage_count = 2
       /\ edge_history[CallKey(c)].average_delay >= 5000
       /\ edge_history[CallKey(c)].failure_rate = SCALE
       /\ c.cost = c.static

C9_InvalidNode ==
  (Returned /\ ~KnownQuery) => srch.kind = "InvalidNode"

\* ------------------------------------------------- claims on the feedback
\* a step that is a whole record_route_feedback call
FeedbackCall == fb'.pc = "done" /\ budget' = budget - 1
PathKeys(path) == {EdgeKey(path[i], path[i + 1]) : i \in 1..(Len(path) - 1)}
Occurrences(path, key) ==
  Cardinality({i \in 1..(Len(path) - 1) : EdgeKey(path[i], path[i + 1]) = key})
OldCount(key) ==
  IF key \in DOMAIN edge_history THEN edge_history[key].usage_count ELSE 0

\* C3 as stated: feedback with success = false makes the failure_rate of
\* every edge of the path strictly greater than before when the edge had
\* usage_count > 0, and 1 when this was its first observation.
C3_StrictlyIncreases ==
  [][(FeedbackCall /\ ~fb'.success) =>
       \A key \in PathKeys(fb'.path) :
         IF OldCount(key) > 0
         THEN edge_history'[key].failure_rate > edge_history[key].failure_rate
         ELSE edge_history'[key].failure_rate = SCALE]_vars

\* C3 amended: the failure_rate is strictly greater than before when the
\* edge had usage_count > 0 and a failure_rate below 1; it is 1 when this
\* was its first observation or its failure_rate was 1 already.
C3_IncreasesBelowOne ==
  [][(FeedbackCall /\ ~fb'.success) =>
       \A key \in PathKeys(fb'.path) :
         IF OldCount(key) > 0 /\ edge_history[key].failure_rate < SCALE
         THEN edge_history'[key].failure_rate > edge_history[key].failure_rate
         ELSE edge_history'[key].failure_rate = SCALE]_vars

\* after a failed route: an edge seen before whose rate rose and is below 1
C3_Witness ==
  /\ fb.pc = "done" /\ ~fb.success
  /\ \E key \in PathKeys(fb.path) :
       /\ edge_history[key].usage_count >= 2
       /\ edge_history[key].total_failures >= 1
       /\ edge_history[key].failure_rate < SCALE

\* C4: once a record_route_feedback call has returned, every record of a
\* store built from the empty one has average_delay = total_delay /
\* usage_count and failure_rate = total_failures / usage_count.
C4_DerivedFields ==
  fb.pc \in {"idle", "done"} =>
    \A key \in DOMAIN edge_history :
      LET r == edge_history[key]
      IN  /\ r.usage_count >= 1
          /\ r.average_delay = FDivInt(r.total_delay, r.usage_count)
          /\ r.failure_rate = IntDiv(r.total_failures, r.usage_count)

\* a record of three observations with delay and failures folded in
C4_Witness ==
  /\ fb.pc = "done"
  /\ \E key \in DOMAIN edge_history :
       /\ edge_history[key].usage_count = 3
       /\ edge_history[key].total_delay > 0
       /\ edge_history[key].total_failures \in {1, 2}

\* C8: on the line graph 0 -> 1 -> 2 (distance 10, traffic 1.0, quality
\* 1.0), light vehicle, empty history, find_optimal_path(0, 2) returns
\* [0, 1, 2] at cost 20; after three record_route_feedback([0,1,2], 30, 20,
\* True) every edge has usage_count 3 and find_optimal_path(0, 2) returns a
\* cost above 20.
C8_LineScenario ==
  (graph = LineGraph /\ vehicle_type = "boda" /\ Returned
     /\ srch.start = 0 /\ srch.end = 2)
  => /\ line_feedbacks = 0 =>
          srch.path = <<0, 1, 2>> /\ srch.total_cost = 20 * SCALE
     /\ line_feedbacks = 3 =>
          /\ \A key \in {"0-1", "1-2"} : edge_history[key].usage_count = 3
          /\ srch.total_cost > 20 * SCALE

C8_Witness ==
  /\ graph = LineGraph /\ vehicle_type = "boda" /\ Returned
  /\ srch.start = 0 /\ srch.end = 2
  /\ line_feedbacks = 3
  /\ srch.total_cost > 20 * SCALE

\* C10: when the save fails, record_route_feedback ends with the error
\* and the store keeps every update of the call (each edge of the path
\* counted once per occurrence); a later find_optimal_path reads the
\* records of the store in memory.
C10_KeptOnSaveFailure ==
  [][/\ (FeedbackCall /\ fb'.storage # "ok") =>
          /\ fb'.kind = "OSError"
          /\ \A key \in PathKeys(fb'.path) :
               /\ key \in DOMAIN edge_history'
               /\ edge_history'[key].usage_count =
                    OldCount(key) + Occurrences(fb'.path, key)
          /\ DOMAIN edge_history \subseteq DOMAIN edge_history'
     /\ srch'.pc = "done" =>
          \A i \in 1..Len(srch'.cost_calls) :
            LET c == srch'.cost_calls[i]
            IN  /\ c.influenced = EnoughSamples(edge_history', CallKey(c))
                /\ c.influenced =>
                     /\ c.uc = edge_history'[CallKey(c)].usage_count
                     /\ c.avg = edge_history'[CallKey(c)].average_delay
                     /\ c.fr = edge_history'[CallKey(c)].failure_rate]_vars

\* a search influenced by history that no save ever wrote
C10_Witness ==
  /\ Returned
  /\ srch.stats.history_influenced > 0
  /\ ~(file.exists /\ file.complete)
  /\ srch.total_cost > 20 * SCALE /\ srch.total_cost < Inf

\* ------------------------------------------------- claims on two threads
\* the store the feedback call in progress will leave
CompletedStore ==
  RunFeedback([f |-> fb, store |-> edge_history, file |-> file]).store

\* C5: a find_optimal_path call interleaved with a record_route_feedback
\* call reads, for every record it applies, the record as it was before the
\* ingestion or as it is after it: usage_count (both reads), average_delay
\* and failure_rate all of one of the two.
C5_WholeRecords ==
  \A c \in CostCalls :
    c.influenced =>
      \E v \in versions \cup {CompletedStore} :
        /\ CallKey(c) \in DOMAIN v
        /\ v[CallKey(c)].usage_count = c.uc
        /\ v[CallKey(c)].usage_count = c.uc2
        /\ v[CallKey(c)].average_delay = c.avg
        /\ v[CallKey(c)].failure_rate = c.fr

\* ---------------------------------------------------- claims on the file
\* C11: after a record_route_feedback call that returned normally the
\* history file holds a complete snapshot that loads, field for field, as
\* the store in memory, so an engine constructed then starts from an equal
\* store; an absent file loads as the empty store.
C11_SnapshotEqualsStore ==
  /\ (fb.pc = "done" /\ fb.kind = "ok") =>
       /\ file.exists /\ file.complete
       /\ DOMAIN _load_history(file) = DOMAIN edge_history
       /\ \A key \in DOMAIN edge_history :
            /\ DOMAIN _load_history(file)[key] = DOMAIN NewRecord
            /\ \A field \in DOMAIN NewRecord :
                 _load_history(file)[key][field] = edge_history[key][field]
  /\ ~file.exists => _load_history(file) = <<>>

\* a normal return with three records in the store, one of them holding
\* several observations, a delay and a failure
C11_Witness ==
  /\ fb.pc = "done" /\ fb.kind = "ok"
  /\ Cardinality(DOMAIN edge_history) >= 3
  /\ \E key \in DOMAIN edge_history :
       /\ edge_history[key].usage_count >= 2
       /\ edge_history[key].total_delay > 0
       /\ edge_history[key].total_failures >= 1

\* ------------------------------------------------ claims on what a call
\* leaves alone
\* C12: a find_optimal_path call leaves the edge-history store in memory
\* and the history file as they were, whatever start, end and history; of
\* the engine only stats changes (graph and vehicle type stay too).
C12_SearchKeepsStore ==
  [][srch'.pc = "done" =>
       /\ edge_history' = edge_history
       /\ file' = file
       /\ graph' = graph /\ vehicle_type' = vehicle_type]_vars

\* a returned search that applied history and also asked for the record of
\* an edge the store has none for, with a file that lags behind the store
C12_Witness ==
  /\ Returned
  /\ srch.stats.history_influenced > 0
  /\ \E c \in CostCalls : CallKey(c) \notin DOMAIN edge_history
  /\ _load_history(file) # edge_history

\* C13: over any sequence of find_optimal_path and record_route_feedback
\* calls on one engine no record leaves the store and no usage_count
\* decreases; a record_route_feedback call raises the usage_count of every
\* edge by exactly its number of occurrences on the path (by 0 for an edge
\* not on it).
C13_CountsOnlyGrow ==
  [][/\ \A key \in DOMAIN edge_history :
          /\ key \in DOMAIN edge_history'
          /\ edge_history'[key].usage_count >= edge_history[key].usage_count
     /\ FeedbackCall =>
          /\ PathKeys(fb'.path) \subseteq DOMAIN edge_history'
          /\ \A key \in DOMAIN edge_history' :
               edge_history'[key].usage_count =
                 OldCount(key) + Occurrences(fb'.path, key)]_vars

\* after a path that runs twice over an edge already counted, next to a
\* record the path did not touch
C13_Witness ==
  /\ fb.pc = "done" /\ fb.path = <<0, 1, 0, 1>>
  /\ "0-1" \in DOMAIN edge_history /\ edge_history["0-1"].usage_count >= 3
  /\ "1-2" \in DOMAIN edge_history

\* ------------------------------------------------- claims on the delay
\* the largest time (minutes) of the delays computed for C14
MaxTime == 40

\* total_delay after n further observations of delay 0
RECURSIVE FoldZeroDelay(_, _, _)
FoldZeroDelay(total_delay, count, n) ==
  IF n = 0 THEN total_delay
  ELSE FoldZeroDelay(FMul(total_delay, DecayPow(count + 1)), count + 1, n - 1)

OldTotalDelay(key) ==
  IF key \in DOMAIN edge_history THEN edge_history[key].total_delay ELSE 0

\* C14: with expected_time <= 0 the delay of record_route_feedback is 0
\* whatever actual_time is, and with actual_time < expected_time it is 0
\* too, never negative; the call ends without an arithmetic error and
\* every edge of the path has a delay of exactly 0 folded into its
\* total_delay.
C14_ZeroDelay ==
  /\ \A a \in (0 - MaxTime)..MaxTime :
       /\ \A e \in (0 - MaxTime)..0 : DelayFactor(a, e) = 0
       /\ \A e \in 1..MaxTime : DelayFactor(a, e) >= 0
       /\ \A e \in 1..MaxTime : a < e => DelayFactor(a, e) = 0
  /\ [][(/\ FeedbackCall
         /\ \/ fb'.expected_time <= 0
            \/ fb'.actual_time < fb'.expected_time) =>
          /\ fb'.kind \in {"ok", "OSError"}
          /\ fb'.delay = 0
          /\ \A key \in PathKeys(fb'.path) :
               edge_history'[key].total_delay =
                 FoldZeroDelay(OldTotalDelay(key), OldCount(key),
                               Occurrences(fb'.path, key))]_vars

\* a report with expected_time 0 folded into an edge that carried delay
C14_Witness ==
  /\ fb.pc = "done" /\ fb.expected_time = 0 /\ fb.actual_time > 0
  /\ fb.delay = 0
  /\ \E key \in PathKeys(fb.path) :
       /\ edge_history[key].usage_count >= 2
       /\ edge_history[key].total_delay > 0

\* C15: record_route_feedback(path, ...) changes exactly the records keyed
\* by the consecutive ordered pairs (path[i], path[i+1]): each of them is
\* in the store afterwards and differs from what it was, every other
\* record is as before, the record of a reverse edge that is not on the
\* path included, and no other record appears.
C15_OnlyPathRecords ==
  [][FeedbackCall =>
       /\ DOMAIN edge_history' = DOMAIN edge_history \cup PathKeys(fb'.path)
       /\ \A key \in PathKeys(fb'.path) :
            key \in DOMAIN edge_history =>
              edge_history'[key] # edge_history[key]
       /\ \A key \in DOMAIN edge_history \ PathKeys(fb'.path) :
            edge_history'[key] = edge_history[key]]_vars

\* after feedback on 0 -> 1 -> 2 with the reverse edge 1 -> 0 recorded
C15_Witness ==
  /\ fb.pc = "done" /\ fb.path = <<0, 1, 2>>
  /\ "1-0" \in DOMAIN edge_history
  /\ edge_history["0-1"].usage_count > edge_history["1-0"].usage_count + 1

\* ------------------------------------------------ claims on the search loop
\* the entry the next extraction takes is of a node settled already
StaleOnTop ==
  /\ srch.pc = "pop" /\ srch.pq # {}
  /\ HeapMin(srch.pq)[2] \in srch.visited

\* C16: a find_optimal_path call that has begun returns; at every step of
\* it nodes_explored is the number of nodes in visited (no node is settled
\* twice), an extracted entry of a settled node is dropped with nothing
\* settled, counted or expanded, and once the goal is in visited the loop
\* is over and no edge out of the goal has been examined.
C16_SettlesOnceAndReturns ==
  /\ [](srch.pc # "idle" =>
          /\ srch.stats.nodes_explored = Cardinality(srch.visited)
          /\ srch.end \in srch.visited =>
               srch.pc \in {"reconstruct", "done"}
          /\ \A i \in 1..Len(srch.stats.explored_edges) :
               srch.stats.explored_edges[i][1] # srch.end)
  /\ [][StaleOnTop =>
          /\ srch'.pc = "pop"
          /\ srch'.pq = srch.pq \ {HeapMin(srch.pq)}
          /\ srch'.visited = srch.visited
          /\ srch'.stats = srch.stats]_vars
  /\ (srch.pc \notin {"idle", "done"}) ~> (srch.pc = "done")

\* a search that has settled two nodes and is about to extract an entry of
\* a settled node
C16_Witness ==
  /\ StaleOnTop
  /\ Cardinality(srch.visited) >= 2
  /\ srch.end \notin srch.visited

\* ------------------------------------------------ claims on the returned
\* path
\* the edges of the graph from u to v (indices into the neighbours of u)
EdgesBetween(u, v) ==
  IF u \in graph.nodes
  THEN {i \in 1..Len(graph.adj[u]) : graph.adj[u][i].neighbor = v}
  ELSE {}

\* the summed adaptive cost of path from its i-th node on, the cheapest
\* edge taken where two nodes are joined by several
RECURSIVE PathCostFrom(_, _)
PathCostFrom(path, i) ==
  IF i >= Len(path) THEN 0
  ELSE SetMin({EdgeCostAt(path[i], j) : j \in EdgesBetween(path[i], path[i + 1])})
       + PathCostFrom(path, i + 1)

\* C18: a non-empty path returned by find_optimal_path(start, end) starts
\* at start and ends at end, each consecutive pair of it is joined by an
\* edge of the graph, and total_cost is the sum of the adaptive edge costs
\* along it; for start = end it is [start] at cost 0.
C18_ReturnedPath ==
  (Returned /\ srch.kind = "ok" /\ srch.path # <<>>) =>
    /\ srch.path[1] = srch.start
    /\ srch.path[Len(srch.path)] = srch.end
    /\ \A i \in 1..(Len(srch.path) - 1) :
         EdgesBetween(srch.path[i], srch.path[i + 1]) # {}
    /\ (\A i \in 1..(Len(srch.path) - 1) :
          EdgesBetween(srch.path[i], srch.path[i + 1]) # {}) =>
         srch.total_cost = PathCostFrom(srch.path, 1)
    /\ srch.start = srch.end =>
         srch.path = <<srch.start>> /\ srch.total_cost = 0

\* a returned path of two edges whose cost history has raised
C18_Witness ==
  /\ Returned /\ srch.kind = "ok"
  /\ Len(srch.path) = 3
  /\ srch.stats.history_influenced > 0
  /\ srch.total_cost > StaticCost(10000, GoodRoad, "boda") * 2
  /\ srch.total_cost < Inf

\* ------------------------------------------------ claims on two engines
\* the last record_route_feedback call of each engine returned normally
BothIngested ==
  /\ fb.pc = "done" /\ fb.kind = "ok"
  /\ peer.fb.pc = "done" /\ peer.fb.kind = "ok"

\* the store both engines loaded when they were constructed
LoadedStore == CHOOSE v \in versions : TRUE
LoadedCount(key) ==
  IF key \in DOMAIN LoadedStore THEN LoadedStore[key].usage_count ELSE 0

\* C17: two engines are constructed on the same history file and each
\* ingests feedback; afterwards the file holds the observations of both:
\* every edge of either path has a record in it whose usage_count covers
\* what the file held at construction and the occurrences of the edge on
\* both paths.
C17_BothEnginesPersisted ==
  BothIngested =>
    LET saved == _load_history(file)
    IN  \A key \in PathKeys(fb.path) \cup PathKeys(peer.fb.path) :
          /\ key \in DOMAIN saved
          /\ saved[key].usage_count >=
               LoadedCount(key) + Occurrences(fb.path, key)
                 + Occurrences(peer.fb.path, key)

====
